---- MODULE Spec2Model ----
(***************************************************************************)
(* Lennard-Jonesium sweep orchestration: grid enumeration and chunking     *)
(* (SweepConfiguration.sweep_range, tools.linspace), per-point seed         *)
(* resolution (run_sweep._create_simulations) and the event-log parser      *)
(* (EventLogParser._parse).                                                 *)
(*                                                                         *)
(* Seven specifications share the variables:                               *)
(*   GridSpec    sweep_range called on a sweep configuration               *)
(*   SeedSpec    run_sweep deriving and persisting the run configurations  *)
(*   ParserSpec  EventLogParser reading an event log line by line          *)
(*   AggSpec     SweepResult and _get_sweep_result sorting points by status *)
(*   ConfigSpec  write, from_file and from_dict of the configuration classes *)
(*   PoolSpec    run_sweep pushing to, polling and waiting for the pool     *)
(*   FairPoolSpec  PoolSpec with every step that is enabled eventually taken *)
(* Numbers that are floats in the program (temperatures, densities) are    *)
(* exact rationals here; rounding is not modelled.                         *)
(***************************************************************************)
EXTENDS Integers, Sequences, FiniteSets, TLC

VARIABLES
    sweep_cfg,      \* SweepConfiguration.system: the six grid fields
    lastCall,       \* the last sweep_range(chunk_count, chunk_index) call and its outcome
    sweepPc,        \* position of run_sweep or run: "idle", "create", "created", "run",
                    \* "ValueError"
    random_seed,    \* run_sweep argument: None, an int, or SeedFn
    nextPoint,      \* index into _sweep_range of the next point _create_simulations handles
    sharedSeed,     \* random_seed of the _System instance every Configuration() shares
    fnCalls,        \* number of calls made so far to a random_seed function
    disk,           \* run-config file of each grid point: NoFile or the seed it records
    derived,        \* per point handled in this invocation: what was found, what was
                    \* persisted and what its Simulation was constructed from
    diskCfg,        \* the other sections of each run-config file: parameters and filepaths
    sweepFile,      \* the sweep config file: "no_dir", "no_file" or "file"
    cwd,            \* the working directory: "caller", "sweep_dir" or "simulation_dir"
    call,           \* the call of run_sweep or run in progress and its config arguments
    pushed,         \* number of simulations pushed to the SimulationPool
    parser,         \* the fields of the EventLogParser instance
    parserPc,       \* "parsing", "done", or the exception that ended _parse
    seen,           \* what the log has contained so far (history)
    aggregator,     \* which aggregation runs: SweepResult or _get_sweep_result
    aggPc,          \* "idle", "collect", "done", or the exception that ended the aggregation
    aggPoints,      \* the grid points the aggregation loops over
    aggIndex,       \* index into aggPoints of the next point to aggregate
    buckets,        \* the three lists of the SweepResult
    category,       \* the local variable category of the aggregation loop
    visit,          \* what the last iteration found on disk for its point
    cls,            \* the class read and written: "Configuration" or "SweepConfiguration"
    nested,         \* the fields of the class-level nested objects of Configuration
    source_conf,    \* the nested fields a SweepConfiguration under construction owns
    input,          \* the config file or dictionary at hand
    dest_conf,      \* the fields the last from_file or from_dict left in its result
    written,        \* the fields of source_conf when it was written (history)
    cfgPc,          \* "idle", "constructed", "written", "provided", "restored", "read",
                    \* or the exception that ended write or from_file
    jobs,           \* the state of each job pushed to the SimulationPool, in push order
    locals,         \* the locals of the run_sweep call that uses the pool
    poolPc          \* position of that call: "idle", "push", "poll", "wait", "aggregate",
                    \* or the exception that ended it

gridVars   == <<sweep_cfg, lastCall>>
seedVars   == <<sweepPc, random_seed, nextPoint, sharedSeed, fnCalls, disk, derived,
                diskCfg, sweepFile, cwd, call, pushed>>
parserVars == <<parser, parserPc, seen>>
aggVars    == <<aggregator, aggPc, aggPoints, aggIndex, buckets, category, visit>>
cfgVars    == <<cls, nested, source_conf, input, dest_conf, written, cfgPc>>
poolVars   == <<jobs, locals, poolPc>>
seedRest   == <<sweepPc, random_seed, nextPoint, sharedSeed, fnCalls, disk, derived,
                diskCfg, sweepFile, call, pushed>>
vars       == <<sweep_cfg, lastCall, sweepPc, random_seed, nextPoint, sharedSeed,
                fnCalls, disk, derived, diskCfg, sweepFile, cwd, call, pushed,
                parser, parserPc, seen,
                aggregator, aggPc, aggPoints, aggIndex, buckets, category, visit,
                cls, nested, source_conf, input, dest_conf, written, cfgPc,
                jobs, locals, poolPc>>


----------------------------------------------------------------------------
(* Bounds *)

MaxVal    == 1      \* grid start/stop values are drawn from 0..MaxVal
MaxSteps  == 3      \* step counts are drawn from 0..MaxSteps
MaxChunks == 5      \* chunk_count is drawn from 0..MaxChunks
MaxSweepSteps == 2  \* temperature_steps of a sweep that run_sweep executes
MaxSeed   == 1      \* random seeds are drawn from 0..MaxSeed
MaxLines  == 4      \* lines in an event log
MaxTime   == 2      \* time steps in an event log are drawn from 0..MaxTime
MaxAggSteps == 2    \* temperature_steps of a sweep whose logs are aggregated
MaxField  == 1      \* int fields are assigned -MaxField..MaxField, float fields as many tenths
MaxJobs   == 3      \* simulations of a sweep pushed to the pool
MaxThreads == 2     \* thread_count of the pool

----------------------------------------------------------------------------
(* Exact rationals, in lowest terms with a positive denominator *)

Abs(x) == IF x < 0 THEN -x ELSE x

RECURSIVE GCD(_, _)
GCD(a, b) == IF b = 0 THEN a ELSE GCD(b, a % b)

Rat(n, d) == LET g == GCD(Abs(n), d) IN <<n \div g, d \div g>>

----------------------------------------------------------------------------
(* tools.linspace *)

Ok(v)     == [err |-> "none", val |-> v]
Raise(e)  == [err |-> e, val |-> <<>>]

\* [start + (count / denominator) * length for count in range(points)]
linspace(start, stop, points) ==
    LET length      == stop - start
        denominator == points - 1
    IN  IF points <= 0 THEN Ok(<<>>)
        ELSE IF denominator = 0 THEN Raise("ZeroDivisionError")
        ELSE Ok([k \in 1..points |-> Rat(start * denominator + (k - 1) * length, denominator)])

\* itertools.product(temperatures, densities): temperature is the outer loop
product(ts, ds) ==
    [k \in 1..(Len(ts) * Len(ds)) |->
        <<ts[((k - 1) \div Len(ds)) + 1], ds[((k - 1) % Len(ds)) + 1]>>]

----------------------------------------------------------------------------
(* more_itertools.divide as sweep_range calls it *)

\* stop offset of part i (1-based): parts 1..r get q + 1 items, the rest q
DivideStop_noRemainder(len, n, i) ==
    LET q == len \div n
    IN  i * q

DivideStop(len, n, i) ==
    LET q == len \div n
        r == len % n
    IN  i * q + (IF i <= r THEN i ELSE r)

DivideStart(len, n, i) == IF i = 1 THEN 0 ELSE DivideStop(len, n, i - 1)

\* seq[start:stop] with 0-based offsets
Slice(seq, start, stop) == SubSeq(seq, start + 1, stop)

divide(n, seq) ==
    [i \in 1..n |-> Slice(seq, DivideStart(Len(seq), n, i), DivideStop(Len(seq), n, i))]

----------------------------------------------------------------------------
(* SweepConfiguration.sweep_range *)

\* list(...)[chunk_index]: Python list indexing, negative indices count from the end
ListIndex(lst, index) ==
    IF 0 <= index /\ index < Len(lst) THEN Ok(lst[index + 1])
    ELSE IF -Len(lst) <= index /\ index < 0 THEN Ok(lst[Len(lst) + index + 1])
    ELSE Raise("IndexError")

sweep_range(cfg, chunk_count, chunk_index) ==
    LET temperatures == linspace(cfg.temperature_start, cfg.temperature_stop,
                                 cfg.temperature_steps)
        densities    == linspace(cfg.density_start, cfg.density_stop, cfg.density_steps)
    IN  IF temperatures.err # "none" THEN temperatures
        ELSE IF densities.err # "none" THEN densities
        ELSE IF chunk_count < 1 THEN Raise("ValueError")
        ELSE ListIndex(divide(chunk_count, product(temperatures.val, densities.val)),
                       chunk_index)

GridConfigs ==
    [temperature_start : 0..MaxVal, temperature_stop : 0..MaxVal,
     temperature_steps : 0..MaxSteps,
     density_start : 0..MaxVal, density_stop : 0..MaxVal,
     density_steps : 0..MaxSteps]

NotCalled == [chunk_count |-> 0, chunk_index |-> 0, result |-> Raise("not called")]

\* a caller iterates sweep_range(c, i): the chunk is yielded or the error raised
SweepRangeCall ==
    /\ lastCall = NotCalled
    /\ \E c \in 0..MaxChunks : \E i \in (-(MaxChunks + 1))..(MaxChunks + 1) :
            lastCall' = [chunk_count |-> c, chunk_index |-> i,
                         result |-> sweep_range(sweep_cfg, c, i)]
    /\ UNCHANGED <<sweep_cfg, seedVars, parserVars, aggVars, cfgVars, poolVars>>

\* the caller is done with the outcome; the sweep configuration is as it was
SweepRangeDone ==
    /\ lastCall # NotCalled
    /\ lastCall' = NotCalled
    /\ UNCHANGED <<sweep_cfg, seedVars, parserVars, aggVars, cfgVars, poolVars>>

----------------------------------------------------------------------------
(* Paths (pathlib) *)

\* a file name below zero or more simulation directories, or an absolute path
FilePath(name)     == [is_absolute |-> FALSE, dirs |-> <<>>, name |-> name]
AbsolutePath(name) == [is_absolute |-> TRUE, dirs |-> <<>>, name |-> name]

\* simulation_dir / path: an absolute right operand is the result as it stands
Join(simulation_dir, path) ==
    IF path.is_absolute THEN path
    ELSE [path EXCEPT !.dirs = <<simulation_dir>> \o @]

----------------------------------------------------------------------------
(* run_sweep: per-point run configurations and their seeds *)

Seeds       == 0..MaxSeed
DefaultSeed == 0            \* SeedGenerator.default_seed()

\* the random_seed argument: None, an int, or a zero-argument function
SeedNone   == [type |-> "NoneType", value |-> 0]
SeedInt(n) == [type |-> "int", value |-> n]
SeedFn     == [type |-> "function", value |-> 0]

\* a run-config file: absent, present without a random_seed key, or recording a seed
NoFile          == [is_file |-> FALSE, has_seed |-> FALSE, random_seed |-> 0]
FileWithoutSeed == [is_file |-> TRUE, has_seed |-> FALSE, random_seed |-> 0]
FileWithSeed(n) == [is_file |-> TRUE, has_seed |-> TRUE, random_seed |-> n]
Files           == {NoFile, FileWithoutSeed} \cup {FileWithSeed(n) : n \in Seeds}

\* np.linspace(start, stop, num, endpoint=True).tolist()
np_linspace(start, stop, num) ==
    IF num <= 0 THEN <<>>
    ELSE IF num = 1 THEN <<Rat(start, 1)>>
    ELSE [k \in 1..num |->
            IF k = num THEN Rat(stop, 1)
            ELSE Rat(start * (num - 1) + (k - 1) * (stop - start), num - 1)]

_sweep_range(cfg) ==
    product(np_linspace(cfg.temperature_start, cfg.temperature_stop, cfg.temperature_steps),
            np_linspace(cfg.density_start, cfg.density_stop, cfg.density_steps))

\* templates.directory.format(temperature, density): the directory is named by the values
_get_simulation_dir(point) == point

SimulationDirs(cfg) == {_get_simulation_dir(_sweep_range(cfg)[k]) : k \in 1..Len(_sweep_range(cfg))}

\* Configuration(): the system field of every instance is the one _System() object made
\* when the class was defined, so the instance starts from whatever seed that object holds
Configuration(shared) == shared

\* Configuration.from_file: a key present in the file overwrites the instance's field
from_file(instanceSeed, file) ==
    IF file.has_seed THEN file.random_seed ELSE instanceSeed

\* the seed branches of _create_simulations; runSeed is run_cfg.system.random_seed
\* before them, existingSeed is existing_cfg.system.random_seed, fnValue what the
\* function returns
ResolveSeed_fileFirst(arg, file, runSeed, existingSeed, fnValue) ==
    IF file.is_file THEN existingSeed
    ELSE IF arg.type = "int" THEN arg.value
    ELSE IF arg.type = "function" THEN fnValue
    ELSE runSeed

ResolveSeed_noReuse(arg, file, runSeed, existingSeed, fnValue) ==
    IF arg.type = "int" THEN arg.value
    ELSE IF arg.type = "function" THEN fnValue
    ELSE DefaultSeed

ResolveSeed(arg, file, runSeed, existingSeed, fnValue) ==
    IF arg.type = "NoneType" /\ file.is_file THEN existingSeed
    ELSE IF arg.type = "int" THEN arg.value
    ELSE IF arg.type = "function" THEN fnValue
    ELSE runSeed

\* sweep_cfg.filenames: the file name of each of the four logs
Filenames ==
    [event_log         |-> FilePath("events.log"),
     thermodynamic_log |-> FilePath("thermodynamics.csv"),
     observation_log   |-> FilePath("observations.csv"),
     snapshot_log      |-> FilePath("snapshots.csv")]

\* the equilibration, observation and shared system parameters of the sweep, as one value
SweepParameters == "parameters of sweep_cfg"

\* what a run-config file holds besides the seed: as this sweep writes it, or left by a
\* run with other parameters and other log names
AsSweep  == [parameters |-> SweepParameters, filepaths |-> Filenames]
Previous == [parameters |-> "parameters of a previous run",
             filepaths  |-> [event_log         |-> FilePath("previous.log"),
                             thermodynamic_log |-> FilePath("previous_thermodynamics.csv"),
                             observation_log   |-> FilePath("previous_observations.csv"),
                             snapshot_log      |-> FilePath("previous_snapshots.csv")]]
FileContents == {AsSweep, Previous}

\* the sweeps run_sweep is given: up to MaxSweepSteps temperatures at one density; with
\* temperature_start = temperature_stop the points share one directory
SeedGridConfigs ==
    [temperature_start : {0, 1}, temperature_stop : {1},
     temperature_steps : 0..MaxSweepSteps,
     density_start : {0}, density_stop : {0},
     density_steps : {1},
     parameters : {SweepParameters}, filenames : {Filenames}]

\* if not config_filepath.is_file() and config_object is None
ConfigMissing_unchecked(is_file, config_object) == FALSE

ConfigMissing(is_file, config_object) == ~is_file /\ ~config_object

\* the parameters and filepaths _create_run_configuration copies from the sweep
_create_run_configuration(cfg) == [parameters |-> cfg.parameters, filepaths |-> cfg.filenames]

_prepend_simulation_dir_threeLogs(simulation_dir, filepaths) ==
    [event_log         |-> Join(simulation_dir, filepaths.event_log),
     thermodynamic_log |-> Join(simulation_dir, filepaths.thermodynamic_log),
     observation_log   |-> Join(simulation_dir, filepaths.observation_log),
     snapshot_log      |-> filepaths.snapshot_log]

_prepend_simulation_dir(simulation_dir, filepaths) ==
    [event_log         |-> Join(simulation_dir, filepaths.event_log),
     thermodynamic_log |-> Join(simulation_dir, filepaths.thermodynamic_log),
     observation_log   |-> Join(simulation_dir, filepaths.observation_log),
     snapshot_log      |-> Join(simulation_dir, filepaths.snapshot_log)]

\* run_cfg.write(run_config_file) after mkdir: the file records the seed
WriteRunConfig_keepExisting(files, simulation_dir, seed) ==
    IF files[simulation_dir].is_file THEN files
    ELSE [files EXCEPT ![simulation_dir] = FileWithSeed(seed)]

WriteRunConfig(files, simulation_dir, seed) ==
    [files EXCEPT ![simulation_dir] = FileWithSeed(seed)]

\* Simulation(run_cfg): the simulation is made from the configuration as it is then
Simulation(seed, parameters, filepaths) ==
    [seed |-> seed, parameters |-> parameters, filepaths |-> filepaths]

NoCall == [fn |-> "none", config_object |-> FALSE, dir |-> <<>>]

\* config_object.system.random_seed after run has assigned seed to cfg.system.random_seed,
\* if cfg were config_object itself
ObjectAfter_sameObject(objectSeed, seed) == seed

\* the same for cfg = deepcopy(config_object): the assignment goes to the copy
ObjectAfter(objectSeed, seed) == objectSeed

SeedArguments == {SeedNone, SeedFn} \cup {SeedInt(n) : n \in Seeds}

\* run_sweep from its entry to the call of _create_simulations: ValueError, or the sweep
\* configuration is read (or copied and written) and the working directory changed
RunSweepBegin ==
    /\ sweepPc = "idle"
    /\ \E arg \in SeedArguments, config_object \in BOOLEAN :
        /\ random_seed' = arg
        /\ call' = [fn |-> "run_sweep", config_object |-> config_object, dir |-> <<>>]
        /\ IF ConfigMissing(sweepFile = "file", config_object)
           THEN /\ sweepPc' = "ValueError"
                /\ UNCHANGED <<sweepFile, cwd>>
           ELSE /\ sweepPc' = "create"
                /\ sweepFile' = IF config_object THEN "file" ELSE sweepFile
                /\ cwd' = "sweep_dir"
    /\ nextPoint' = 1
    /\ fnCalls' = 0
    /\ derived' = <<>>
    /\ pushed' = 0
    /\ UNCHANGED <<sharedSeed, disk, diskCfg, gridVars, parserVars, aggVars, cfgVars, poolVars>>

\* one iteration of the loop of _create_simulations
CreateSimulation ==
    /\ sweepPc = "create"
    /\ nextPoint <= Len(_sweep_range(sweep_cfg))
    /\ \E fnValue \in (IF random_seed.type = "function" THEN Seeds ELSE {DefaultSeed}) :
        LET simulation_dir == _get_simulation_dir(_sweep_range(sweep_cfg)[nextPoint])
            file           == disk[simulation_dir]
            runSeed        == Configuration(sharedSeed)
            \* existing_cfg.system is the same shared object as run_cfg.system, so what
            \* from_file reads into existing_cfg is what run_cfg holds as well; the same
            \* goes for the equilibration, observation and filepaths objects
            existingSeed   == from_file(Configuration(sharedSeed), file)
            seed           == ResolveSeed(random_seed, file, runSeed, existingSeed, fnValue)
            run_cfg        == IF random_seed.type = "NoneType" /\ file.is_file
                              THEN diskCfg[simulation_dir]
                              ELSE _create_run_configuration(sweep_cfg)
        IN  /\ sharedSeed' = seed
            /\ disk' = WriteRunConfig(disk, simulation_dir, seed)
            /\ diskCfg' = [diskCfg EXCEPT ![simulation_dir] = run_cfg]
            /\ derived' = Append(derived,
                    [dir |-> simulation_dir, found |-> file, seed |-> seed,
                     written |-> run_cfg,
                     simulation |-> Simulation(seed, run_cfg.parameters,
                            _prepend_simulation_dir(simulation_dir, run_cfg.filepaths))])
            /\ fnCalls' = IF random_seed.type = "function" THEN fnCalls + 1 ELSE fnCalls
    /\ nextPoint' = nextPoint + 1
    /\ UNCHANGED <<sweepPc, random_seed, sweepFile, cwd, call, pushed,
                   gridVars, parserVars, aggVars, cfgVars, poolVars>>

\* the loop is exhausted and _create_simulations returns the simulations
CreateSimulationsReturn ==
    /\ sweepPc = "create"
    /\ nextPoint > Len(_sweep_range(sweep_cfg))
    /\ sweepPc' = "created"
    /\ UNCHANGED <<random_seed, nextPoint, sharedSeed, fnCalls, disk, derived,
                   diskCfg, sweepFile, cwd, call, pushed,
                   gridVars, parserVars, aggVars, cfgVars, poolVars>>

\* pool.push(simulation) for the next simulation of the list
PushSimulation ==
    /\ sweepPc = "created"
    /\ pushed < Len(derived)
    /\ pushed' = pushed + 1
    /\ UNCHANGED <<sweepPc, random_seed, nextPoint, sharedSeed, fnCalls, disk, derived,
                   diskCfg, sweepFile, cwd, call,
                   gridVars, parserVars, aggVars, cfgVars, poolVars>>

\* every simulation is pushed: run_sweep waits for the pool, restores the working
\* directory and returns to its caller, which may call it again in the same interpreter
RunSweepReturn ==
    /\ sweepPc = "created"
    /\ pushed = Len(derived)
    /\ sweepPc' = "idle"
    /\ cwd' = "caller"
    \* the arguments and locals of the call are gone
    /\ random_seed' = SeedNone
    /\ call' = NoCall
    /\ nextPoint' = 1
    /\ fnCalls' = 0
    /\ derived' = <<>>
    /\ pushed' = 0
    /\ UNCHANGED <<sharedSeed, disk, diskCfg, sweepFile, gridVars, parserVars, aggVars, cfgVars, poolVars>>

\* run from its entry to Simulation(cfg): ValueError, or the configuration is read from
\* the file (or copied from config_object), given its seed and written, and the working
\* directory changed
RunBegin ==
    /\ sweepPc = "idle"
    /\ \E simulation_dir \in DOMAIN disk, arg \in SeedArguments, config_object \in BOOLEAN :
       \E fnValue \in (IF arg.type = "function" THEN Seeds ELSE {DefaultSeed}),
          objectSeed \in (IF config_object THEN Seeds ELSE {DefaultSeed}),
          objectCfg \in (IF config_object THEN FileContents ELSE {AsSweep}) :
        LET file    == disk[simulation_dir]
            cfgSeed == IF config_object THEN objectSeed
                       ELSE from_file(Configuration(sharedSeed), file)
            seed    == IF arg.type = "int" THEN arg.value
                       ELSE IF arg.type = "function" THEN fnValue
                       ELSE cfgSeed
            cfg     == IF config_object THEN objectCfg ELSE diskCfg[simulation_dir]
        IN  /\ random_seed' = arg
            /\ call' = IF ConfigMissing(file.is_file, config_object)
                       THEN [fn |-> "run", config_object |-> config_object,
                             dir |-> simulation_dir]
                       ELSE [fn |-> "run", config_object |-> config_object,
                             dir |-> simulation_dir,
                             \* what run found and was given, and what it made of it
                             found |-> file, returned |-> fnValue,
                             object_seed |-> objectSeed, object_cfg |-> objectCfg,
                             object_after |-> ObjectAfter(objectSeed, seed),
                             simulation |-> Simulation(seed, cfg.parameters, cfg.filepaths)]
            /\ IF ConfigMissing(file.is_file, config_object)
               THEN /\ sweepPc' = "ValueError"
                    /\ UNCHANGED <<sharedSeed, disk, diskCfg, cwd>>
               ELSE /\ sweepPc' = "run"
                    \* deepcopy(config_object) has a system object of its own
                    /\ sharedSeed' = IF config_object THEN sharedSeed ELSE seed
                    /\ disk' = WriteRunConfig(disk, simulation_dir, seed)
                    /\ diskCfg' = [diskCfg EXCEPT ![simulation_dir] =
                                        IF config_object THEN objectCfg ELSE @]
                    /\ cwd' = "simulation_dir"
            /\ fnCalls' = IF arg.type = "function" /\ sweepPc' = "run" THEN 1 ELSE 0
    /\ nextPoint' = 1
    /\ derived' = <<>>
    /\ pushed' = 0
    /\ UNCHANGED <<sweepFile, gridVars, parserVars, aggVars, cfgVars, poolVars>>

\* the simulation has run: run restores the working directory and returns
RunReturn ==
    /\ sweepPc = "run"
    /\ sweepPc' = "idle"
    /\ cwd' = "caller"
    \* the arguments and locals of the call are gone
    /\ random_seed' = SeedNone
    /\ call' = NoCall
    /\ nextPoint' = 1
    /\ fnCalls' = 0
    /\ derived' = <<>>
    /\ pushed' = 0
    /\ UNCHANGED <<sharedSeed, disk, diskCfg, sweepFile, gridVars, parserVars, aggVars, cfgVars, poolVars>>

\* the ValueError reaches the caller of run or run_sweep
CallRaised ==
    /\ sweepPc = "ValueError"
    /\ sweepPc' = "idle"
    /\ random_seed' = SeedNone
    /\ call' = NoCall
    /\ nextPoint' = 1
    /\ fnCalls' = 0
    /\ derived' = <<>>
    /\ pushed' = 0
    /\ UNCHANGED <<sharedSeed, disk, diskCfg, sweepFile, cwd, gridVars, parserVars, aggVars, cfgVars, poolVars>>

----------------------------------------------------------------------------
(* Text: a string is a sequence of one-character strings *)

Digit == <<"0", "1", "2", "3", "4", "5", "6", "7", "8", "9">>

DigitValue(c) == CHOOSE d \in 0..9 : Digit[d + 1] = c

IsDigit(c) == \E d \in 0..9 : Digit[d + 1] = c

\* str(n) for an int n
RECURSIVE NatStr(_)
NatStr(n) == IF n < 10 THEN <<Digit[n + 1]>> ELSE NatStr(n \div 10) \o <<Digit[(n % 10) + 1]>>

IntStr(n) == IF n < 0 THEN <<"-">> \o NatStr(-n) ELSE NatStr(n)

\* s.startswith(prefix)
StartsWith(s, prefix) == Len(s) >= Len(prefix) /\ SubSeq(s, 1, Len(prefix)) = prefix

\* positions at which ': ' occurs in s
SeparatorAt(s) == {i \in 1..(Len(s) - 1) : s[i] = ":" /\ s[i + 1] = " "}

Min(S) == CHOOSE x \in S : \A y \in S : x <= y

\* line.split(': ', maxsplit=1): one part when there is no separator, else two
Split(line) ==
    IF SeparatorAt(line) = {} THEN <<line>>
    ELSE LET i == Min(SeparatorAt(line))
         IN  <<SubSeq(line, 1, i - 1), SubSeq(line, i + 2, Len(line))>>

\* int(text): optional sign and decimal digits (surrounding blanks are stripped)
RECURSIVE Strip(_)
Strip(s) ==
    IF s = <<>> THEN s
    ELSE IF s[1] \in {" ", "\n"} THEN Strip(Tail(s))
    ELSE IF s[Len(s)] \in {" ", "\n"} THEN Strip(SubSeq(s, 1, Len(s) - 1))
    ELSE s

Unsigned(s) == IF s # <<>> /\ s[1] \in {"-", "+"} THEN Tail(s) ELSE s

IsIntLiteral(text) ==
    LET u == Unsigned(Strip(text))
    IN  u # <<>> /\ \A i \in 1..Len(u) : IsDigit(u[i])

RECURSIVE NatValue(_)
NatValue(u) ==
    IF u = <<>> THEN 0
    ELSE 10 * NatValue(SubSeq(u, 1, Len(u) - 1)) + DigitValue(u[Len(u)])

IntValue(text) ==
    LET t == Strip(text)
    IN  IF t[1] = "-" THEN -NatValue(Unsigned(t)) ELSE NatValue(Unsigned(t))

----------------------------------------------------------------------------
(* The lines an event log is made of *)

PhaseStarted      == <<"P","h","a","s","e"," ","s","t","a","r","t","e","d">>
PhaseComplete     == <<"P","h","a","s","e"," ","c","o","m","p","l","e","t","e">>
Temperature       == <<"T","e","m","p","e","r","a","t","u","r","e">>
Observation       == <<"O","b","s","e","r","v","a","t","i","o","n">>
SimulationAborted == <<"S","i","m","u","l","a","t","i","o","n"," ","a","b","o","r","t","e","d">>
SimulationBegun   == <<"S","i","m","u","l","a","t","i","o","n"," ","b","e","g","u","n">>

WellFormedKinds == {"started", "complete", "temperature", "observation", "aborted", "other"}
MalformedKinds  == {"empty", "no_separator", "bad_time_step"}

Message(kind) ==
    CASE kind = "started"     -> PhaseStarted \o <<":", " ", "e", "q">>
      [] kind = "complete"    -> PhaseComplete
      [] kind = "temperature" -> Temperature \o <<" ", "a", "d", "j", "u", "s", "t", "e", "d">>
      [] kind = "observation" -> Observation \o <<" ", "r", "e", "c", "o", "r", "d", "e", "d">>
      [] kind = "aborted"     -> SimulationAborted
      [] kind = "other"       -> SimulationBegun

\* the text of a line as readlines() returns it, newline included
LineText(l) ==
    CASE l.kind \in WellFormedKinds -> IntStr(l.time_step) \o <<":", " ">> \o Message(l.kind) \o <<"\n">>
      [] l.kind = "empty"           -> <<"\n">>
      [] l.kind = "no_separator"    -> IntStr(l.time_step) \o <<" ">> \o PhaseStarted \o <<"\n">>
      [] l.kind = "bad_time_step"   -> <<"x">> \o <<":", " ">> \o PhaseStarted \o <<"\n">>

Lines ==
    [kind : WellFormedKinds, time_step : 0..MaxTime]
        \cup [kind : MalformedKinds, time_step : {0}]

----------------------------------------------------------------------------
(* EventLogParser *)

\* Optional[int]: None is the empty tuple, an int n the tuple <<n>>
None      == <<>>
Some(n)   == <<n>>
Get(o)    == o[1]

StatusNone == "None"     \* simulation_status before any status is assigned

InitialParser ==
    [simulation_status        |-> StatusNone,
     equilibration_started    |-> None,
     equilibration_completed  |-> None,
     equilibration_time_steps |-> None,
     observation_started      |-> None,
     observation_completed    |-> None,
     observation_time_steps   |-> None,
     total_time_steps         |-> 0,
     temperature_adjustments  |-> <<>>,
     observations_recorded    |-> <<>>]

Parsed(p, e) == [parser |-> p, err |-> e]

\* if self.equilibration_completed is None
AbortedStatus_falsy(p) ==
    IF p.equilibration_completed = None \/ p.equilibration_completed = Some(0)
    THEN "equilibration_aborted"
    ELSE "observation_aborted"

AbortedStatus(p) ==
    IF p.equilibration_completed = None
    THEN "equilibration_aborted"
    ELSE "observation_aborted"

\* the 'Phase complete' branch; subtracting None raises TypeError after the
\* completed time step has been stored
PhaseCompleteBranch_fromFirst(p, time_step) ==
    IF p.equilibration_completed = None
    THEN LET p1 == [p EXCEPT !.equilibration_completed = Some(time_step)]
         IN  IF p.equilibration_started = None THEN Parsed(p1, "TypeError")
             ELSE Parsed([p1 EXCEPT !.equilibration_time_steps =
                                        Some(time_step - Get(p.equilibration_started))],
                         "none")
    ELSE LET p1 == [p EXCEPT !.observation_completed = Some(time_step)]
         IN  IF p.observation_started = None THEN Parsed(p1, "TypeError")
             ELSE Parsed([p1 EXCEPT !.observation_time_steps =
                                        Some(time_step - Get(p.equilibration_started)),
                                    !.simulation_status = "completed"],
                         "none")

PhaseCompleteBranch(p, time_step) ==
    IF p.equilibration_completed = None
    THEN LET p1 == [p EXCEPT !.equilibration_completed = Some(time_step)]
         IN  IF p.equilibration_started = None THEN Parsed(p1, "TypeError")
             ELSE Parsed([p1 EXCEPT !.equilibration_time_steps =
                                        Some(time_step - Get(p.equilibration_started))],
                         "none")
    ELSE LET p1 == [p EXCEPT !.observation_completed = Some(time_step)]
         IN  IF p.observation_started = None THEN Parsed(p1, "TypeError")
             ELSE Parsed([p1 EXCEPT !.observation_time_steps =
                                        Some(time_step - Get(p.observation_started)),
                                    !.simulation_status = "completed"],
                         "none")

\* the branches of the loop body after total_time_steps has been set
Dispatch(p, rest, time_step) ==
    IF StartsWith(rest, PhaseStarted) THEN
        IF p.equilibration_started = None
        THEN Parsed([p EXCEPT !.equilibration_started = Some(time_step)], "none")
        ELSE Parsed([p EXCEPT !.observation_started = Some(time_step)], "none")
    ELSE IF StartsWith(rest, PhaseComplete) THEN PhaseCompleteBranch(p, time_step)
    ELSE IF StartsWith(rest, Temperature) THEN
        Parsed([p EXCEPT !.temperature_adjustments = Append(@, time_step)], "none")
    ELSE IF StartsWith(rest, Observation) THEN
        Parsed([p EXCEPT !.observations_recorded = Append(@, time_step)], "none")
    ELSE IF StartsWith(rest, SimulationAborted) THEN
        Parsed([p EXCEPT !.simulation_status = AbortedStatus(p)], "none")
    ELSE Parsed(p, "none")

\* one iteration of the loop in which total_time_steps is left as it was
ParseOneLine_keepTotal(p, text) ==
    LET parts == Split(text)
    IN  IF Len(parts) # 2 THEN Parsed(p, "ValueError")
        ELSE IF ~IsIntLiteral(parts[1]) THEN Parsed(p, "ValueError")
        ELSE Dispatch(p, parts[2], IntValue(parts[1]))

\* one iteration of the loop of _parse on the text of one line
ParseOneLine(p, text) ==
    LET parts == Split(text)
    IN  IF Len(parts) # 2 THEN Parsed(p, "ValueError")           \* unpacking first, rest
        ELSE IF ~IsIntLiteral(parts[1]) THEN Parsed(p, "ValueError")   \* int(first)
        ELSE LET time_step == IntValue(parts[1])
             IN  Dispatch([p EXCEPT !.total_time_steps = time_step], parts[2], time_step)

InitialSeen == [lines |-> 0, last |-> [kind |-> "none", time_step |-> 0],
                phases |-> <<>>, aborted |-> FALSE, malformed |-> FALSE]

\* the history of the log: the phase lines in order, whether an aborted line or a
\* malformed line has occurred
Record(h, l) ==
    [lines     |-> h.lines + 1,
     last      |-> l,
     phases    |-> IF l.kind \in {"started", "complete"} THEN Append(h.phases, l) ELSE h.phases,
     aborted   |-> h.aborted \/ l.kind = "aborted",
     malformed |-> h.malformed \/ l.kind \in MalformedKinds]

\* _parse takes the next line of the log
ParseLine ==
    /\ parserPc = "parsing"
    /\ seen.lines < MaxLines
    /\ \E l \in Lines :
        LET r == ParseOneLine(parser, LineText(l))
        IN  /\ parser' = r.parser
            /\ parserPc' = IF r.err = "none" THEN "parsing" ELSE r.err
            /\ seen' = Record(seen, l)
    /\ UNCHANGED <<gridVars, seedVars, aggVars, cfgVars, poolVars>>

\* the lines are exhausted: _parse and the constructor return
EndOfLog ==
    /\ parserPc = "parsing"
    /\ parserPc' = "done"
    /\ UNCHANGED <<parser, seen, gridVars, seedVars, aggVars, cfgVars, poolVars>>

----------------------------------------------------------------------------
(* Aggregation of the event logs of a sweep: SweepResult._collect_results   *)
(* and run_sweep._get_sweep_result                                          *)

\* 'word' in line
Contains(line, word) ==
    \E i \in 1..(Len(line) - Len(word) + 1) : SubSeq(line, i, i + Len(word) - 1) = word

Aborted     == <<"a", "b", "o", "r", "t", "e", "d">>
Equilibrate == <<"e", "q", "u", "i", "l", "i", "b", "r", "a", "t", "e">>

\* the loop of _parse over all the lines of a log; an exception ends it
RECURSIVE _parse(_, _)
_parse(p, lines) ==
    IF lines = <<>> THEN Parsed(p, "none")
    ELSE LET r == ParseOneLine(p, Head(lines))
         IN  IF r.err # "none" THEN r ELSE _parse(r.parser, Tail(lines))

\* EventLogParser(event_log) on an existing file
EventLogParser(lines) == _parse(InitialParser, lines)

\* tools.last_line(events_log)
last_line(lines) == lines[Len(lines)]

\* get_simulation_result once the events log is known to exist
ResultOfLastLine(result_line) ==
    IF Contains(result_line, Aborted)
    THEN IF Contains(result_line, Equilibrate) THEN "equilibration_aborted"
         ELSE "observation_aborted"
    ELSE "completed"

\* the event logs a simulation directory may hold
Line(kind, time_step) == LineText([kind |-> kind, time_step |-> time_step])

FailedToEquilibrate ==
    IntStr(1) \o <<":", " ">> \o SimulationAborted \o <<":", " ", "f", "a", "i", "l", "e", "d",
        " ", "t", "o", " ">> \o Equilibrate \o <<"\n">>

LogLines ==
    [completed |->
        <<Line("started", 0), Line("complete", 1), Line("started", 1), Line("complete", 2)>>,
     equilibration_aborted |->
        <<Line("started", 0), FailedToEquilibrate>>,
     observation_aborted |->
        <<Line("started", 0), Line("complete", 1), Line("started", 1), Line("aborted", 2)>>,
     incomplete |->
        <<Line("started", 0), Line("complete", 1), Line("started", 1)>>,
     malformed |->
        <<Line("started", 0), Line("empty", 0)>>]

LogNames == DOMAIN LogLines

Missing   == "missing"          \* no file at the location
LogStates == LogNames \cup {Missing}

\* what each log gives when EventLogParser reads it and when its last line is classified
ParsedLog ==
    [completed             |-> EventLogParser(LogLines.completed),
     equilibration_aborted |-> EventLogParser(LogLines.equilibration_aborted),
     observation_aborted   |-> EventLogParser(LogLines.observation_aborted),
     incomplete            |-> EventLogParser(LogLines.incomplete),
     malformed             |-> EventLogParser(LogLines.malformed)]

LastLineResult ==
    [completed             |-> ResultOfLastLine(last_line(LogLines.completed)),
     equilibration_aborted |-> ResultOfLastLine(last_line(LogLines.equilibration_aborted)),
     observation_aborted   |-> ResultOfLastLine(last_line(LogLines.observation_aborted)),
     incomplete            |-> ResultOfLastLine(last_line(LogLines.incomplete)),
     malformed             |-> ResultOfLastLine(last_line(LogLines.malformed))]

EventLogName     == FilePath("events.log")
AbsoluteEventLog == AbsolutePath("events.log")

\* what an iteration finds on disk: the event_log path its run configuration records,
\* the state of the file at the absolute path and of the file of that name in the
\* directory of the point; with an absolute path recorded, the directory holds a
\* completed log or nothing
Visits ==
    [event_log : {EventLogName}, at_absolute : {Missing}, in_directory : LogStates]
        \cup [event_log : {AbsoluteEventLog}, at_absolute : LogStates,
              in_directory : {Missing, "completed"}]

NoVisit == [point |-> 0, event_log |-> EventLogName,
            at_absolute |-> Missing, in_directory |-> Missing]

\* the state of the file at a place, given what is on disk for the point
FileAt(v, simulation_dir, place) ==
    IF place = AbsoluteEventLog THEN v.at_absolute
    ELSE IF place = Join(simulation_dir, EventLogName) THEN v.in_directory
    ELSE Missing

\* event_log as written if absolute, else below the directory of the point
ResolveEventLog_inDirectory(simulation_dir, event_log) ==
    Join(simulation_dir, FilePath(event_log.name))

ResolveEventLog(simulation_dir, event_log) ==
    IF event_log.is_absolute THEN event_log ELSE Join(simulation_dir, event_log)

\* the directories an aggregator loops over: simulation_dir_range() enumerates with
\* tools.linspace, simulation_dirs() with np.linspace
Enumeration(a, cfg) ==
    IF a = "SweepResult" THEN sweep_range(cfg, 1, 0) ELSE Ok(_sweep_range(cfg))

\* the status an existing log is given: EventLogParser's simulation_status or the
\* result get_simulation_result returns
Classify(a, log) ==
    IF a = "SweepResult"
    THEN [err |-> ParsedLog[log].err, status |-> ParsedLog[log].parser.simulation_status]
    ELSE [err |-> "none", status |-> LastLineResult[log]]

BucketNames  == {"completed", "equilibration_aborted", "observation_aborted"}
EmptyBuckets == [b \in BucketNames |-> <<>>]
Unbound      == "unbound"       \* the local variable category before its first assignment

\* the if/elif chain: a status that is none of the three leaves category as it was
Category(previous, status) ==
    IF status = "completed" THEN "completed"
    ELSE IF status = "equilibration_aborted" THEN "equilibration_aborted"
    ELSE IF status = "observation_aborted" THEN "observation_aborted"
    ELSE previous

\* category.append(entry)
AppendTo_assign(b, cat, entry) == [b EXCEPT ![cat] = <<entry>>]

AppendTo_front(b, cat, entry) == [b EXCEPT ![cat] = <<entry>> \o @]

AppendTo(b, cat, entry) == [b EXCEPT ![cat] = Append(@, entry)]

\* the sweeps whose logs are aggregated
AggGridConfigs ==
    [temperature_start : {0}, temperature_stop : {1},
     temperature_steps : 0..MaxAggSteps,
     density_start : {0, 1}, density_stop : {1},
     density_steps : {1, 2}]

\* SweepResult(sweep_config_file) is constructed, or _get_sweep_result(sweep_cfg) called:
\* the buckets are empty and the loop is about to start
AggregateBegin ==
    /\ aggPc = "idle"
    /\ \E a \in {"SweepResult", "_get_sweep_result"} :
        LET e == Enumeration(a, sweep_cfg)
        IN  /\ aggregator' = a
            /\ aggPc' = IF e.err # "none" THEN e.err ELSE "collect"
            /\ aggPoints' = e.val
    /\ aggIndex' = 1
    /\ buckets' = EmptyBuckets
    /\ category' = Unbound
    /\ visit' = NoVisit
    /\ UNCHANGED <<gridVars, seedVars, parserVars, cfgVars, poolVars>>

\* one iteration of the loop over the simulation directories
AggregateStep ==
    /\ aggPc = "collect"
    /\ aggIndex <= Len(aggPoints)
    /\ \E v \in Visits :
        LET simulation_dir == _get_simulation_dir(aggPoints[aggIndex])
            log == FileAt(v, simulation_dir, ResolveEventLog(simulation_dir, v.event_log))
            cat == Category(category, Classify(aggregator, log).status)
        IN  /\ visit' = [point |-> aggIndex, event_log |-> v.event_log,
                          at_absolute |-> v.at_absolute,
                          in_directory |-> v.in_directory]
            /\ IF log = Missing THEN
                    /\ aggPc' = "FileNotFoundError"
                    /\ UNCHANGED <<aggIndex, buckets, category>>
               ELSE IF Classify(aggregator, log).err # "none" THEN
                    /\ aggPc' = Classify(aggregator, log).err
                    /\ UNCHANGED <<aggIndex, buckets, category>>
               ELSE IF cat = Unbound THEN
                    /\ aggPc' = "UnboundLocalError"
                    /\ UNCHANGED <<aggIndex, buckets, category>>
               ELSE /\ category' = cat
                    /\ buckets' = AppendTo(buckets, cat,
                                           [simulation_dir |-> simulation_dir,
                                            point |-> aggIndex, log |-> log])
                    /\ aggIndex' = aggIndex + 1
                    /\ aggPc' = aggPc
    /\ UNCHANGED <<aggregator, aggPoints, gridVars, seedVars, parserVars, cfgVars, poolVars>>

\* the loop is exhausted: the SweepResult is returned
AggregateReturn ==
    /\ aggPc = "collect"
    /\ aggIndex > Len(aggPoints)
    /\ aggPc' = "done"
    /\ UNCHANGED <<aggregator, aggPoints, aggIndex, buckets, category, visit,
                   gridVars, seedVars, parserVars, cfgVars, poolVars>>

\* the caller has the result or the exception and the call is over; the logs may be
\* aggregated again
AggregateEnd ==
    /\ aggPc \notin {"idle", "collect"}
    /\ aggPc' = "idle"
    /\ aggPoints' = <<>>
    /\ aggIndex' = 1
    /\ buckets' = EmptyBuckets
    /\ category' = Unbound
    /\ visit' = NoVisit
    /\ UNCHANGED <<aggregator, gridVars, seedVars, parserVars, cfgVars, poolVars>>

----------------------------------------------------------------------------
(* Configuration and SweepConfiguration: write, from_file, from_dict *)

\* the nested fields modelled: an int, a float and a str field that both classes declare
\* (system.particle_count, system.cutoff_distance, equilibration.name); a float is the
\* number of its tenths
FieldNames == {"particle_count", "cutoff_distance", "name"}
FieldType  == [particle_count |-> "int", cutoff_distance |-> "float", name |-> "str"]

EquilibrationPhase ==
    <<"E","q","u","i","l","i","b","r","a","t","i","o","n"," ","P","h","a","s","e">>

\* particle_count: int = 100, cutoff_distance: float = 2.5, name: str = 'Equilibration Phase'
Declared ==
    [particle_count |-> 100, cutoff_distance |-> 25, name |-> EquilibrationPhase]

\* the values a field is assigned
Names == {<<>>, <<"a">>, <<" ", "a">>, <<"a", " ">>, <<"%">>, <<"%", "%">>, <<"a", "%">>}

FieldValues ==
    [particle_count |-> -MaxField..MaxField, cutoff_distance |-> -MaxField..MaxField,
     name |-> Names]

\* str(x) for a float x with one decimal
FloatStr(t) ==
    (IF t < 0 THEN <<"-">> ELSE <<>>) \o NatStr(Abs(t) \div 10)
        \o <<".", Digit[(Abs(t) % 10) + 1]>>

\* str(value)
str(type, value) ==
    IF type = "int" THEN IntStr(value)
    ELSE IF type = "float" THEN FloatStr(value)
    ELSE value

\* float(text), for the decimals with at most one digit after the point
IsFloatLiteral(text) ==
    LET u == Unsigned(Strip(text))
    IN  \/ u # <<>> /\ \A i \in 1..Len(u) : IsDigit(u[i])
        \/ /\ Len(u) >= 3
           /\ u[Len(u) - 1] = "."
           /\ IsDigit(u[Len(u)])
           /\ \A i \in 1..(Len(u) - 2) : IsDigit(u[i])

FloatValue(text) ==
    LET t == Strip(text)
        u == Unsigned(t)
        magnitude == IF Len(u) >= 2 /\ u[Len(u) - 1] = "."
                     THEN 10 * NatValue(SubSeq(u, 1, Len(u) - 2)) + DigitValue(u[Len(u)])
                     ELSE 10 * NatValue(u)
    IN  IF t[1] = "-" THEN -magnitude ELSE magnitude

\* value.replace('%%', '')
RECURSIVE RemovePairs(_)
RemovePairs(s) ==
    IF Len(s) < 2 THEN s
    ELSE IF s[1] = "%" /\ s[2] = "%" THEN RemovePairs(SubSeq(s, 3, Len(s)))
    ELSE <<s[1]>> \o RemovePairs(Tail(s))

\* BasicInterpolation.before_set, which parser[section][key] = value runs: a '%' that is
\* not part of '%%' (there are no '%(name)s' in the values here) raises ValueError
before_set(value) ==
    IF \E i \in 1..Len(RemovePairs(value)) : RemovePairs(value)[i] = "%"
    THEN "ValueError" ELSE "none"

\* BasicInterpolation.before_get, which every read of a value runs: '%%' becomes '%'
RECURSIVE Interpolate(_)
Interpolate(s) ==
    IF s = <<>> THEN Ok(<<>>)
    ELSE IF s[1] # "%"
         THEN LET rest == Interpolate(Tail(s))
              IN  IF rest.err # "none" THEN rest ELSE Ok(<<s[1]>> \o rest.val)
    ELSE IF Len(s) >= 2 /\ s[2] = "%"
         THEN LET rest == Interpolate(SubSeq(s, 3, Len(s)))
              IN  IF rest.err # "none" THEN rest ELSE Ok(<<"%">> \o rest.val)
    ELSE Raise("InterpolationSyntaxError")

\* cp.getint, cp.getfloat or cp[section][key] for the 'key = value' line holding text:
\* the parser strips the value, interpolates it and converts it
getvalue(type, text) ==
    LET got == Interpolate(Strip(text))
    IN  IF got.err # "none" THEN got
        ELSE IF type = "int"
             THEN IF IsIntLiteral(got.val) THEN Ok(IntValue(got.val)) ELSE Raise("ValueError")
        ELSE IF type = "float"
             THEN IF IsFloatLiteral(got.val) THEN Ok(FloatValue(got.val))
                  ELSE Raise("ValueError")
        ELSE got

\* a config file or a dictionary: the keys of the record it has, whether it has a section
\* and a key the record does not define, and the values (texts in a file) of its keys
NoInput ==
    [kind |-> "none", has |-> {}, unknown |-> FALSE, values |-> Declared,
     texts |-> [particle_count |-> <<>>, cutoff_distance |-> <<>>, name |-> <<>>]]

Texts(fields) ==
    [particle_count  |-> str(FieldType.particle_count, fields.particle_count),
     cutoff_distance |-> str(FieldType.cutoff_distance, fields.cutoff_distance),
     name            |-> str(FieldType.name, fields.name)]

\* write: every field is set in a ConfigParser as str(value), then the parser is written
write(fields) ==
    IF \E f \in FieldNames : before_set(Texts(fields)[f]) # "none"
    THEN Raise("ValueError")
    ELSE Ok([kind |-> "ini", has |-> FieldNames, unknown |-> FALSE, values |-> fields,
             texts |-> Texts(fields)])

\* the order in which the loops of the readers visit the fields
ReadOrder == <<"particle_count", "cutoff_distance", "name">>

\* _read_config_parser / read_config_parser from field i on: a key that is defined and in
\* cp is converted by the type of the field's current value and set; an exception leaves
\* the fields set before it
RECURSIVE _read_config_parser(_, _, _)
_read_config_parser(self, cp, i) ==
    IF i > Len(ReadOrder) THEN Ok(self)
    ELSE LET f   == ReadOrder[i]
             got == getvalue(FieldType[f], cp.texts[f])
         IN  IF f \notin cp.has THEN _read_config_parser(self, cp, i + 1)
             ELSE IF got.err # "none" THEN [err |-> got.err, val |-> self]
             ELSE _read_config_parser([self EXCEPT ![f] = got.val], cp, i + 1)

\* _read_dict / read_dict: a key that is defined and in d is set to d's value as it is
_read_dict(self, d) ==
    [particle_count  |-> IF "particle_count" \in d.has THEN d.values.particle_count
                         ELSE self.particle_count,
     cutoff_distance |-> IF "cutoff_distance" \in d.has THEN d.values.cutoff_distance
                         ELSE self.cutoff_distance,
     name            |-> IF "name" \in d.has THEN d.values.name ELSE self.name]

\* cls(): the nested objects of a new instance. Those of a Configuration are the
\* class-level defaults (system: _System = _System()), the same objects for every
\* instance; those of a SweepConfiguration come from default_factory
NestedOf(own) == IF cls = "Configuration" THEN nested ELSE own

\* the values the files and dictionaries given from outside hold for their keys
InputValues == [particle_count |-> 0, cutoff_distance |-> -1, name |-> <<"a">>]

Inputs ==
    [kind : {"ini", "dict"}, has : SUBSET FieldNames, unknown : BOOLEAN,
     values : {InputValues}, texts : {Texts(InputValues)}]

\* source_conf = cls()
Construct ==
    /\ cfgPc = "idle"
    /\ cfgPc' = "constructed"
    /\ source_conf' = Declared
    /\ UNCHANGED <<cls, nested, input, dest_conf, written,
                   gridVars, seedVars, parserVars, aggVars, poolVars>>

\* source_conf.<section>.<key> = value
SetField ==
    /\ cfgPc = "constructed"
    /\ \E f \in FieldNames : \E v \in FieldValues[f] :
        IF cls = "Configuration"
        THEN nested' = [nested EXCEPT ![f] = v] /\ UNCHANGED source_conf
        ELSE source_conf' = [source_conf EXCEPT ![f] = v] /\ UNCHANGED nested
    /\ UNCHANGED <<cls, cfgPc, input, dest_conf, written,
                   gridVars, seedVars, parserVars, aggVars, poolVars>>

\* source_conf.write(file)
Write ==
    /\ cfgPc = "constructed"
    /\ LET out == write(NestedOf(source_conf))
       IN  IF out.err # "none"
           THEN cfgPc' = out.err /\ UNCHANGED <<input, written>>
           ELSE /\ cfgPc' = "written"
                /\ input' = out.val
                /\ written' = NestedOf(source_conf)
    /\ UNCHANGED <<cls, nested, source_conf, dest_conf,
                   gridVars, seedVars, parserVars, aggVars, poolVars>>

\* a file or a dictionary is given from outside
Provide ==
    /\ cfgPc = "idle"
    /\ cfgPc' = "provided"
    /\ input' \in Inputs
    /\ UNCHANGED <<cls, nested, source_conf, dest_conf, written,
                   gridVars, seedVars, parserVars, aggVars, poolVars>>

\* dest_conf = cls.from_file(file)
FromFile ==
    /\ cfgPc \in {"written", "provided"}
    /\ input.kind = "ini"
    /\ LET got == _read_config_parser(NestedOf(Declared), input, 1)
       IN  /\ cfgPc' = IF got.err # "none" THEN got.err
                       ELSE IF cfgPc = "written" THEN "restored" ELSE "read"
           /\ dest_conf' = got.val
           /\ nested' = IF cls = "Configuration" THEN got.val ELSE nested
    /\ UNCHANGED <<cls, source_conf, input, written,
                   gridVars, seedVars, parserVars, aggVars, poolVars>>

\* dest_conf = cls.from_dict(d)
FromDict ==
    /\ cfgPc = "provided"
    /\ input.kind = "dict"
    /\ LET got == _read_dict(NestedOf(Declared), input)
       IN  /\ cfgPc' = "read"
           /\ dest_conf' = got
           /\ nested' = IF cls = "Configuration" THEN got ELSE nested
    /\ UNCHANGED <<cls, source_conf, input, written,
                   gridVars, seedVars, parserVars, aggVars, poolVars>>

\* the objects and the file are dropped; the class-level defaults stay as they are
Discard ==
    /\ cfgPc \notin {"idle", "provided", "written"}
    /\ cfgPc' = "idle"
    /\ source_conf' = Declared
    /\ dest_conf' = Declared
    /\ input' = NoInput
    /\ written' = Declared
    /\ UNCHANGED <<cls, nested, gridVars, seedVars, parserVars, aggVars, poolVars>>

----------------------------------------------------------------------------
(* SimulationPool, and run_sweep from the creation of the pool to its return *)

\* a job of the pool is waiting, running, or has terminated: finished with its event
\* log written, or failed without one
Terminal == {"finished", "failed"}

Count(js, states) == Cardinality({i \in 1..Len(js) : js[i] \in states})

\* pool.status(), counting only the jobs that finished
status_finishedOnly(js) ==
    [waiting   |-> Count(js, {"waiting"}),
     running   |-> Count(js, {"running"}),
     completed |-> Count(js, {"finished"})]

\* pool.status(): a snapshot of the three counters
status(js) ==
    [waiting   |-> Count(js, {"waiting"}),
     running   |-> Count(js, {"running"}),
     completed |-> Count(js, Terminal)]

\* pool.wait() returning at once
wait_nonBlocking(js) == TRUE

\* pool.wait() returns when every job pushed has terminated
wait(js) == \A i \in 1..Len(js) : js[i] \in Terminal

\* if status.completed == job_count: break, as a test of the running counter
PollingDone_idle(snapshot, job_count) == snapshot.running = 0

\* if status.completed == job_count: break
PollingDone(snapshot, job_count) == snapshot.completed = job_count

NoStatus == [waiting |-> 0, running |-> 0, completed |-> 0]

\* the locals of run_sweep: thread_count, echo_status, len(simulations), the saved
\* working directory, the last status polled and the number of event logs read
NoLocals ==
    [thread_count |-> 1, echo_status |-> FALSE, job_count |-> 0, cwd |-> "caller",
     status |-> NoStatus, logs_read |-> 0]

\* run_sweep saves the working directory, changes it, creates the simulations and the pool
PoolCreate ==
    /\ poolPc = "idle"
    /\ \E thread_count \in 1..MaxThreads, job_count \in 0..MaxJobs, echo_status \in BOOLEAN :
        locals' = [thread_count |-> thread_count, echo_status |-> echo_status,
                   job_count |-> job_count, cwd |-> cwd,
                   status |-> NoStatus, logs_read |-> 0]
    /\ cwd' = "sweep_dir"
    /\ jobs' = <<>>
    /\ poolPc' = "push"
    /\ UNCHANGED <<gridVars, seedRest, parserVars, aggVars, cfgVars>>

\* pool.push(simulation)
PoolPush ==
    /\ poolPc = "push"
    /\ Len(jobs) < locals.job_count
    /\ jobs' = Append(jobs, "waiting")
    /\ UNCHANGED <<poolPc, locals, cwd, gridVars, seedRest, parserVars, aggVars, cfgVars>>

\* the push loop is over: the status is reported if echo_status, else the pool waited for
PushLoopEnd ==
    /\ poolPc = "push"
    /\ Len(jobs) = locals.job_count
    /\ poolPc' = IF locals.echo_status THEN "poll" ELSE "wait"
    /\ UNCHANGED <<jobs, locals, cwd, gridVars, seedRest, parserVars, aggVars, cfgVars>>

\* a worker of the pool takes a waiting job
JobStart ==
    /\ \E i \in 1..Len(jobs) :
        /\ jobs[i] = "waiting"
        /\ Count(jobs, {"running"}) < locals.thread_count
        /\ jobs' = [jobs EXCEPT ![i] = "running"]
    /\ UNCHANGED <<poolPc, locals, cwd, gridVars, seedRest, parserVars, aggVars, cfgVars>>

\* a running job terminates
JobEnd ==
    /\ \E i \in 1..Len(jobs), outcome \in Terminal :
        /\ jobs[i] = "running"
        /\ jobs' = [jobs EXCEPT ![i] = outcome]
    /\ UNCHANGED <<poolPc, locals, cwd, gridVars, seedRest, parserVars, aggVars, cfgVars>>

\* one iteration of the loop of _report_pool_status
Poll ==
    /\ poolPc = "poll"
    /\ locals' = [locals EXCEPT !.status = status(jobs)]
    /\ poolPc' = IF PollingDone(status(jobs), locals.job_count) THEN "wait" ELSE "poll"
    /\ UNCHANGED <<jobs, cwd, gridVars, seedRest, parserVars, aggVars, cfgVars>>

\* pool.wait() returns
Wait ==
    /\ poolPc = "wait"
    /\ wait(jobs)
    /\ poolPc' = "aggregate"
    /\ UNCHANGED <<jobs, locals, cwd, gridVars, seedRest, parserVars, aggVars, cfgVars>>

\* one iteration of the loop of _get_sweep_result: get_simulation_result reads the event
\* log of the next point, or raises FileNotFoundError if there is none
ReadEventLog ==
    /\ poolPc = "aggregate"
    /\ locals.logs_read < locals.job_count
    /\ IF jobs[locals.logs_read + 1] = "finished"
       THEN /\ locals' = [locals EXCEPT !.logs_read = @ + 1]
            /\ poolPc' = "aggregate"
       ELSE /\ poolPc' = "FileNotFoundError"
            /\ UNCHANGED locals
    /\ UNCHANGED <<jobs, cwd, gridVars, seedRest, parserVars, aggVars, cfgVars>>

\* the sweep result is complete: os.chdir(cwd) and run_sweep returns
PoolReturn ==
    /\ poolPc = "aggregate"
    /\ locals.logs_read = locals.job_count
    /\ cwd' = locals.cwd
    /\ poolPc' = "idle"
    /\ locals' = NoLocals
    /\ jobs' = <<>>
    /\ UNCHANGED <<gridVars, seedRest, parserVars, aggVars, cfgVars>>

\* the FileNotFoundError leaves run_sweep: no statement after the one that raised runs
PoolRaised ==
    /\ poolPc = "FileNotFoundError"
    /\ poolPc' = "idle"
    /\ locals' = NoLocals
    /\ jobs' = <<>>
    /\ UNCHANGED <<cwd, gridVars, seedRest, parserVars, aggVars, cfgVars>>


----------------------------------------------------------------------------
(* Specifications *)

IdleGrid   == /\ sweep_cfg \in GridConfigs
              /\ lastCall = NotCalled
IdleSweep  == /\ sweepPc = "idle"
              /\ random_seed = SeedNone
              /\ nextPoint = 1
              /\ sharedSeed = DefaultSeed
              /\ fnCalls = 0
              /\ derived = <<>>
              /\ cwd = "caller"
              /\ call = NoCall
              /\ pushed = 0
IdleParser == /\ parser = InitialParser
              /\ parserPc = "parsing"
              /\ seen = InitialSeen
IdleAgg    == /\ aggregator = "SweepResult"
              /\ aggPc = "idle"
              /\ aggPoints = <<>>
              /\ aggIndex = 1
              /\ buckets = EmptyBuckets
              /\ category = Unbound
              /\ visit = NoVisit
IdlePool == /\ poolPc = "idle"
            /\ locals = NoLocals
            /\ jobs = <<>>

IdleConfig == /\ cfgPc = "idle"
              /\ nested = Declared
              /\ source_conf = Declared
              /\ input = NoInput
              /\ dest_conf = Declared
              /\ written = Declared

GridInit ==
    /\ IdleGrid
    /\ IdleSweep
    /\ disk = [d \in SimulationDirs(sweep_cfg) |-> NoFile]
    /\ diskCfg = [d \in SimulationDirs(sweep_cfg) |-> AsSweep]
    /\ sweepFile = "file"
    /\ IdleParser
    /\ IdleAgg
    /\ cls = "Configuration"
    /\ IdleConfig
    /\ IdlePool

GridNext ==
    \/ SweepRangeCall
    \/ SweepRangeDone

GridSpec == GridInit /\ [][GridNext]_vars

SeedInit ==
    /\ sweep_cfg \in SeedGridConfigs
    /\ lastCall = NotCalled
    /\ IdleSweep
    /\ disk \in [SimulationDirs(sweep_cfg) -> Files]
    /\ diskCfg \in [SimulationDirs(sweep_cfg) -> FileContents]
    /\ \A d \in SimulationDirs(sweep_cfg) : ~disk[d].is_file => diskCfg[d] = AsSweep
    /\ sweepFile \in {"no_dir", "no_file", "file"}
    /\ IdleParser
    /\ IdleAgg
    /\ cls = "Configuration"
    /\ IdleConfig
    /\ IdlePool

SeedNext ==
    \/ RunSweepBegin
    \/ CreateSimulation
    \/ CreateSimulationsReturn
    \/ PushSimulation
    \/ RunSweepReturn
    \/ RunBegin
    \/ RunReturn
    \/ CallRaised

SeedSpec == SeedInit /\ [][SeedNext]_vars

ParserInit ==
    /\ sweep_cfg = [temperature_start |-> 0, temperature_stop |-> 0, temperature_steps |-> 0,
                    density_start |-> 0, density_stop |-> 0, density_steps |-> 0]
    /\ lastCall = NotCalled
    /\ IdleSweep
    /\ disk = [d \in SimulationDirs(sweep_cfg) |-> NoFile]
    /\ diskCfg = [d \in SimulationDirs(sweep_cfg) |-> AsSweep]
    /\ sweepFile = "file"
    /\ IdleParser
    /\ IdleAgg
    /\ cls = "Configuration"
    /\ IdleConfig
    /\ IdlePool

ParserNext ==
    \/ ParseLine
    \/ EndOfLog

ParserSpec == ParserInit /\ [][ParserNext]_vars

AggInit ==
    /\ sweep_cfg \in AggGridConfigs
    /\ lastCall = NotCalled
    /\ IdleSweep
    /\ disk = [d \in SimulationDirs(sweep_cfg) |-> NoFile]
    /\ diskCfg = [d \in SimulationDirs(sweep_cfg) |-> AsSweep]
    /\ sweepFile = "file"
    /\ IdleParser
    /\ IdleAgg
    /\ cls = "Configuration"
    /\ IdleConfig
    /\ IdlePool

AggNext ==
    \/ AggregateBegin
    \/ AggregateStep
    \/ AggregateReturn
    \/ AggregateEnd

AggSpec == AggInit /\ [][AggNext]_vars

ConfigInit ==
    /\ sweep_cfg = [temperature_start |-> 0, temperature_stop |-> 0, temperature_steps |-> 0,
                    density_start |-> 0, density_stop |-> 0, density_steps |-> 0]
    /\ lastCall = NotCalled
    /\ IdleSweep
    /\ disk = [d \in SimulationDirs(sweep_cfg) |-> NoFile]
    /\ diskCfg = [d \in SimulationDirs(sweep_cfg) |-> AsSweep]
    /\ sweepFile = "file"
    /\ IdleParser
    /\ IdleAgg
    /\ cls \in {"Configuration", "SweepConfiguration"}
    /\ IdleConfig
    /\ IdlePool

ConfigNext ==
    \/ Construct
    \/ SetField
    \/ Write
    \/ Provide
    \/ FromFile
    \/ FromDict
    \/ Discard

ConfigSpec == ConfigInit /\ [][ConfigNext]_vars

PoolInit ==
    /\ sweep_cfg = [temperature_start |-> 0, temperature_stop |-> 0, temperature_steps |-> 0,
                    density_start |-> 0, density_stop |-> 0, density_steps |-> 0]
    /\ lastCall = NotCalled
    /\ IdleSweep
    /\ disk = [d \in SimulationDirs(sweep_cfg) |-> NoFile]
    /\ diskCfg = [d \in SimulationDirs(sweep_cfg) |-> AsSweep]
    /\ sweepFile = "file"
    /\ IdleParser
    /\ IdleAgg
    /\ cls = "Configuration"
    /\ IdleConfig
    /\ IdlePool

PoolNext ==
    \/ PoolCreate
    \/ PoolPush
    \/ PushLoopEnd
    \/ JobStart
    \/ JobEnd
    \/ Poll
    \/ Wait
    \/ ReadEventLog
    \/ PoolReturn
    \/ PoolRaised

PoolSpec == PoolInit /\ [][PoolNext]_vars

\* the thread of run_sweep and the workers of the pool keep running
FairPoolSpec ==
    /\ PoolSpec
    /\ WF_vars(PoolPush) /\ WF_vars(PushLoopEnd) /\ WF_vars(Poll) /\ WF_vars(Wait)
    /\ WF_vars(ReadEventLog) /\ WF_vars(PoolReturn) /\ WF_vars(PoolRaised)
    /\ WF_vars(JobStart) /\ WF_vars(JobEnd)

----------------------------------------------------------------------------
(* Properties of sweep_range (GridSpec) *)

RECURSIVE Flatten(_)
Flatten(seqs) == IF seqs = <<>> THEN <<>> ELSE Head(seqs) \o Flatten(Tail(seqs))

Range(seq) == {seq[k] : k \in 1..Len(seq)}

Called == lastCall # NotCalled

FullEnumeration == sweep_range(sweep_cfg, 1, 0)

Chunk(c, i) == sweep_range(sweep_cfg, c, i)

\* C1: whenever sweep_range(c, i) returns a chunk for c >= 1 and 0 <= i < c, every
\* chunk 0..c-1 is returned, the chunks concatenated in index order are the full
\* enumeration sweep_range(1, 0) (so each position of the enumeration lies in exactly
\* one chunk), no two chunk sizes differ by more than 1, and when the points of the
\* grid are pairwise distinct no point lies in two chunks.
C1_ChunksPartitionGrid ==
    LET c == lastCall.chunk_count
        i == lastCall.chunk_index
    IN  (Called /\ lastCall.result.err = "none" /\ 0 <= i /\ i < c) =>
            /\ FullEnumeration.err = "none"
            /\ \A k \in 0..(c - 1) : Chunk(c, k).err = "none"
            /\ lastCall.result = Chunk(c, i)
            /\ Flatten([k \in 1..c |-> Chunk(c, k - 1).val]) = FullEnumeration.val
            /\ \A k, l \in 0..(c - 1) :
                    Len(Chunk(c, k).val) - Len(Chunk(c, l).val) <= 1
            /\ (Cardinality(Range(FullEnumeration.val)) = Len(FullEnumeration.val)) =>
                    \A k, l \in 0..(c - 1) :
                        k # l => Range(Chunk(c, k).val) \cap Range(Chunk(c, l).val) = {}

\* a chunk was returned for a chunk_count larger than the number of grid points, which
\* do not divide evenly
C1_Witness ==
    /\ Called /\ lastCall.result.err = "none"
    /\ lastCall.chunk_index \in 0..(lastCall.chunk_count - 1)
    /\ Len(FullEnumeration.val) > 0
    /\ lastCall.chunk_count > Len(FullEnumeration.val)
    /\ lastCall.result.val # <<>>

\* C2: for step counts m >= 1 and n >= 1 the enumeration sweep_range(1, 0) returns
\* without error exactly m * n points, the first sampled value of each axis is its
\* start and, for a step count >= 2, the last is its stop.
C2_GridEnumeration ==
    LET m == sweep_cfg.temperature_steps
        n == sweep_cfg.density_steps
        r == lastCall.result
    IN  (Called /\ lastCall.chunk_count = 1 /\ lastCall.chunk_index = 0 /\ m >= 1 /\ n >= 1) =>
            /\ r.err = "none"
            /\ Len(r.val) = m * n
            /\ r.val[1] = <<Rat(sweep_cfg.temperature_start, 1), Rat(sweep_cfg.density_start, 1)>>
            /\ (m >= 2) => r.val[m * n][1] = Rat(sweep_cfg.temperature_stop, 1)
            /\ (n >= 2) => r.val[m * n][2] = Rat(sweep_cfg.density_stop, 1)

\* C3: a call with chunk_index outside 0 <= chunk_index < chunk_count fails with an
\* error and yields no grid point.
C3_OutOfRangeIndexFails ==
    (Called /\ ~(0 <= lastCall.chunk_index /\ lastCall.chunk_index < lastCall.chunk_count)) =>
        lastCall.result.err # "none"

----------------------------------------------------------------------------
(* Properties of the seeds run_sweep persists (SeedSpec) *)

\* C4: with an int random_seed s, every run configuration derived so far in this
\* invocation was persisted with seed s, and the file of its point records s,
\* whatever file was found at the point.
C4_ExplicitSeedEverywhere ==
    (random_seed.type = "int" /\ sweepPc # "idle") =>
        \A k \in 1..Len(derived) :
            /\ derived[k].seed = random_seed.value
            /\ disk[derived[k].dir] = FileWithSeed(random_seed.value)

\* an int seed was given and a point handled had a file recording a different seed
C4_Witness ==
    /\ random_seed.type = "int" /\ sweepPc = "created"
    /\ \E k \in 1..Len(derived) :
        /\ derived[k].found.has_seed
        /\ derived[k].found.random_seed # random_seed.value
        /\ derived[k].seed = random_seed.value

\* C5: with random_seed None, a point whose run-config file recorded seed s is
\* derived and persisted with seed s: the seed on disk is not changed.
C5_ExistingSeedReused ==
    (random_seed.type = "NoneType" /\ sweepPc # "idle") =>
        \A k \in 1..Len(derived) :
            derived[k].found.has_seed =>
                /\ derived[k].seed = derived[k].found.random_seed
                /\ disk[derived[k].dir] = FileWithSeed(derived[k].found.random_seed)

\* without an explicit seed, a point was found with a seed that is neither the default
\* nor the seed of the point handled before it
C5_Witness ==
    /\ random_seed.type = "NoneType" /\ sweepPc = "created"
    /\ \E k \in 2..Len(derived) :
        /\ derived[k].found.has_seed
        /\ derived[k].found.random_seed # DefaultSeed
        /\ derived[k].found.random_seed # derived[k - 1].seed
        /\ derived[k].seed = derived[k].found.random_seed

\* C6: with random_seed None, every point that has no run-config file is derived with
\* the default seed, whatever was found at or assigned to the points before it.
C6_DefaultSeedWithoutFile ==
    (random_seed.type = "NoneType" /\ sweepPc # "idle") =>
        \A k \in 1..Len(derived) :
            ~derived[k].found.is_file => derived[k].seed = DefaultSeed

----------------------------------------------------------------------------
(* Properties of run_sweep and run: order of the steps, persisted files (SeedSpec) *)

InRunSweep == sweepPc \in {"create", "created"}

\* the directory of point k is the directory of no other point of the sweep
OwnDirectory(k) == \A l \in 1..Len(derived) : l # k => derived[l].dir # derived[k].dir

LogFields == DOMAIN Filenames

\* C15: a call of run_sweep or run whose config file is not an existing file and that is
\* given no config object ends in ValueError, with no directory or file created or
\* written, the working directory as it was and no simulation created or pushed; and
\* nothing of that changes while the ValueError travels to the caller.
C15_ValueErrorBeforeAnyWork ==
    [][/\ (/\ sweepPc = "idle" /\ sweepPc' # "idle"
           /\ ~call'.config_object
           /\ ~(IF call'.fn = "run_sweep" THEN sweepFile = "file"
                ELSE disk[call'.dir].is_file)) =>
                /\ sweepPc' = "ValueError"
                /\ UNCHANGED <<disk, diskCfg, sweepFile, cwd>>
                /\ derived' = <<>>
                /\ pushed' = 0
       /\ (sweepPc = "ValueError") =>
                UNCHANGED <<disk, diskCfg, sweepFile, cwd, derived, pushed>>]_vars

\* run_sweep has raised ValueError for a sweep config file whose directory does not
\* exist, after an earlier sweep that wrote run-config files
C15_Witness ==
    /\ sweepPc = "ValueError"
    /\ call.fn = "run_sweep"
    /\ ~call.config_object
    /\ sweepFile = "no_dir"
    /\ \E d \in DOMAIN disk : disk[d].is_file

\* C23: when run has written the configuration and made its Simulation, the file at
\* config_file records the seed the Simulation was made with; that seed is the int given,
\* or what the one call of the function given returned, or else the seed of config_object
\* if one is given, or else the seed the file recorded; with a config_object the rest of
\* the file is the object's, and the object's seed is what it was.
C23_RunRecordsSeedUsed ==
    sweepPc = "run" =>
        LET used == call.simulation.seed
        IN  /\ disk[call.dir] = FileWithSeed(used)
            /\ random_seed.type = "int" => used = random_seed.value
            /\ random_seed.type = "function" => (used = call.returned /\ fnCalls = 1)
            /\ (random_seed.type = "NoneType" /\ call.config_object) =>
                    used = call.object_seed
            /\ (random_seed.type = "NoneType" /\ ~call.config_object
                    /\ call.found.has_seed) => used = call.found.random_seed
            /\ call.config_object =>
                    /\ diskCfg[call.dir] = call.object_cfg
                    /\ call.simulation.parameters = call.object_cfg.parameters
                    /\ call.object_after = call.object_seed

\* run was given a seed function and a config_object whose seed and contents differ from
\* those of the file it found
C23_Witness ==
    /\ sweepPc = "run"
    /\ random_seed.type = "function"
    /\ call.config_object
    /\ call.returned # call.object_seed
    /\ call.found.has_seed
    /\ call.found.random_seed # call.returned
    /\ call.object_cfg = Previous
    /\ disk[call.dir] = FileWithSeed(call.returned)

C20_SweepParametersCarried ==
    InRunSweep =>
        \A k \in 1..Len(derived) :
            /\ derived[k].written.parameters = sweep_cfg.parameters
            /\ derived[k].simulation.parameters = sweep_cfg.parameters

----------------------------------------------------------------------------
(* Properties of EventLogParser (ParserSpec) *)

PhaseKinds == [k \in 1..Len(seen.phases) |-> seen.phases[k].kind]

PhaseTime(k) == seen.phases[k].time_step

CompleteSeen == \E k \in 1..Len(seen.phases) : seen.phases[k].kind = "complete"

\* C7: a log whose phase lines are, in order, 'Phase started', 'Phase complete',
\* 'Phase started', 'Phase complete', with no 'Simulation aborted' line, ends with
\* status completed, equilibration_time_steps = first complete - first started and
\* observation_time_steps = second complete - second started.
C7_CompletedRunDurations ==
    (/\ parserPc = "done"
     /\ PhaseKinds = <<"started", "complete", "started", "complete">>
     /\ ~seen.aborted) =>
        /\ parser.simulation_status = "completed"
        /\ parser.equilibration_time_steps = Some(PhaseTime(2) - PhaseTime(1))
        /\ parser.observation_time_steps = Some(PhaseTime(4) - PhaseTime(3))

\* such a log was parsed to its end, with phases of different lengths that start at
\* different time steps
C7_Witness ==
    /\ parserPc = "done"
    /\ PhaseKinds = <<"started", "complete", "started", "complete">>
    /\ ~seen.aborted
    /\ PhaseTime(1) # PhaseTime(3)
    /\ PhaseTime(2) - PhaseTime(1) # PhaseTime(4) - PhaseTime(3)
    /\ parser.simulation_status = "completed"

\* C8: right after a 'Simulation aborted' line is read, the status is
\* equilibration_aborted if no 'Phase complete' line came before it and
\* observation_aborted otherwise.
C8_AbortedStatus ==
    (seen.last.kind = "aborted" /\ parserPc \in {"parsing", "done"}) =>
        parser.simulation_status =
            IF CompleteSeen THEN "observation_aborted" ELSE "equilibration_aborted"

\* an aborted line was read after an equilibration that completed at time step 0
C8_Witness ==
    /\ seen.last.kind = "aborted"
    /\ parserPc = "parsing"
    /\ CompleteSeen
    /\ parser.equilibration_completed = Some(0)
    /\ parser.simulation_status = "observation_aborted"

\* C9: a log that ends with neither a second 'Phase complete' nor a 'Simulation
\* aborted' line (well-formed otherwise) is parsed without an exception and the
\* status is the explicit value Incomplete.
C9_IncompleteStatus ==
    LET completes == Cardinality({k \in 1..Len(seen.phases) : seen.phases[k].kind = "complete"})
    IN  (parserPc = "done" /\ ~seen.aborted /\ completes < 2) =>
            parser.simulation_status = "incomplete"

\* C10: a malformed line raises no exception: the parser goes on with the next line.
C10_MalformedLineSkipped ==
    (seen.last.kind \in MalformedKinds) => parserPc \in {"parsing", "done"}

\* C25: when a line has been processed, total_time_steps is the time step of that line;
\* a line whose message starts with none of the five keywords changes nothing else, and
\* a 'Temperature' or 'Observation' line changes nothing else but its own list, to which
\* its time step is appended.
C25_LineFrame ==
    [][(parserPc = "parsing" /\ parserPc' = "parsing" /\ seen'.lines = seen.lines + 1) =>
        LET l == seen'.last
            p == [parser EXCEPT !.total_time_steps = l.time_step]
        IN  /\ parser'.total_time_steps = l.time_step
            /\ l.kind = "other" => parser' = p
            /\ l.kind = "temperature" =>
                    parser' = [p EXCEPT !.temperature_adjustments = Append(@, l.time_step)]
            /\ l.kind = "observation" =>
                    parser' = [p EXCEPT !.observations_recorded = Append(@, l.time_step)]]_vars

\* an unmatched line at a new time step was processed after an equilibration phase with
\* a temperature adjustment
C25_Witness ==
    /\ parserPc = "parsing"
    /\ seen.last.kind = "other"
    /\ parser.equilibration_time_steps # None
    /\ parser.temperature_adjustments # <<>>
    /\ parser.total_time_steps = seen.last.time_step
    /\ parser.total_time_steps # Get(parser.equilibration_completed)

\* C28: a log of well-formed lines in any order is parsed without an exception, and a
\* duration that is reported is the difference of the completed and the started time
\* step of its phase.
C28_WellFormedNeverRaises ==
    ~seen.malformed =>
        /\ parserPc \in {"parsing", "done"}
        /\ parser.equilibration_time_steps # None =>
                /\ parser.equilibration_started # None
                /\ parser.equilibration_completed # None
                /\ Get(parser.equilibration_time_steps) =
                        Get(parser.equilibration_completed) - Get(parser.equilibration_started)
        /\ parser.observation_time_steps # None =>
                /\ parser.observation_started # None
                /\ parser.observation_completed # None
                /\ Get(parser.observation_time_steps) =
                        Get(parser.observation_completed) - Get(parser.observation_started)

\* C29: a status that has been assigned is not changed by a later line, and
\* equilibration_started, equilibration_completed and equilibration_time_steps are not
\* changed once they are set.
C29_TerminalStatusFinal ==
    [][/\ parser.simulation_status # StatusNone =>
            parser'.simulation_status = parser.simulation_status
       /\ parser.equilibration_started # None =>
            parser'.equilibration_started = parser.equilibration_started
       /\ parser.equilibration_completed # None =>
            parser'.equilibration_completed = parser.equilibration_completed
       /\ parser.equilibration_time_steps # None =>
            parser'.equilibration_time_steps = parser.equilibration_time_steps]_vars

----------------------------------------------------------------------------
(* Properties of the aggregation (AggSpec) *)

AggDir(k) == _get_simulation_dir(aggPoints[k])

\* the entries of the three buckets, each named by its bucket and its position
Entries == UNION {{<<b, i>> : i \in 1..Len(buckets[b])} : b \in BucketNames}

Entry(e) == buckets[e[1]][e[2]]

\* a log EventLogParser reads to its end without assigning a status
Incomplete(log) ==
    /\ ParsedLog[log].err = "none"
    /\ ParsedLog[log].parser.simulation_status = StatusNone

\* a <= b for rationals
RatLeq(a, b) == a[1] * b[2] <= b[1] * a[2]

\* C11: when an aggregation has returned, the sizes of the three buckets add up to the
\* number of grid points it looped over, every point of the enumeration is the point of
\* exactly one entry, which holds the directory of that point, and when the directories
\* of the points are pairwise distinct every directory is in exactly one entry.
C11_BucketsCoverPoints ==
    (aggPc = "done") =>
        LET points  == aggPoints
            entries == {Entry(e) : e \in Entries}
        IN  /\ Len(buckets["completed"]) + Len(buckets["equilibration_aborted"])
                    + Len(buckets["observation_aborted"]) = Len(points)
            /\ \A k \in 1..Len(points) :
                /\ Cardinality({e \in Entries : Entry(e).point = k}) = 1
                /\ \A x \in entries :
                        x.point = k => x.simulation_dir = _get_simulation_dir(points[k])
            /\ (Cardinality(Range(points)) = Len(points)) =>
                    \A k \in 1..Len(points) :
                        Cardinality({e \in Entries :
                            Entry(e).simulation_dir = _get_simulation_dir(points[k])}) = 1

\* an aggregation over four points has returned with entries in all three buckets
C11_Witness ==
    /\ aggPc = "done"
    /\ Len(aggPoints) = 4
    /\ \A b \in BucketNames : buckets[b] # <<>>

\* C12: no bucket holds an entry for a point whose event log gives no terminal status.
C12_IncompleteNotBucketed ==
    \A e \in Entries : ~Incomplete(Entry(e).log)

\* C13: in every bucket the entries are in the order of the enumeration, each holds the
\* directory of its point, and the enumeration has temperature as the outer loop and
\* density as the inner loop: it ascends in temperature and, within one temperature, in
\* density.
C13_BucketsInEnumerationOrder ==
    (aggPc \in {"collect", "done"}) =>
        LET points == aggPoints
        IN  /\ \A b \in BucketNames : \A i, j \in 1..Len(buckets[b]) :
                    i < j => buckets[b][i].point < buckets[b][j].point
            /\ \A e \in Entries :
                    Entry(e).simulation_dir = _get_simulation_dir(points[Entry(e).point])
            /\ \A k, l \in 1..Len(points) :
                    k < l => /\ RatLeq(points[k][1], points[l][1])
                             /\ points[k][1] = points[l][1] =>
                                    RatLeq(points[k][2], points[l][2])

\* an aggregation over a grid of four distinct points has returned with one bucket holding
\* three of them, so points of both temperatures and both densities
C13_Witness ==
    /\ aggPc = "done"
    /\ Len(aggPoints) = 4
    /\ Cardinality(Range(aggPoints)) = 4
    /\ \E b \in BucketNames : Len(buckets[b]) = 3

\* C14: when the iteration for a point finds no file at the place of its event log (the
\* recorded path if it is absolute, else that path below the directory of the point),
\* the aggregation ends with FileNotFoundError: it does not go on and returns nothing.
C14_MissingLogFails ==
    LET found == IF visit.event_log.is_absolute THEN visit.at_absolute
                 ELSE visit.in_directory
    IN  (aggPc # "idle" /\ visit.point > 0 /\ found = Missing) =>
            aggPc = "FileNotFoundError"

\* the second or a later point records an absolute path at which there is no file, while
\* its directory holds a completed log
C14_Witness ==
    /\ aggPc = "FileNotFoundError"
    /\ visit.point >= 2
    /\ visit.event_log = AbsoluteEventLog
    /\ visit.at_absolute = Missing
    /\ visit.in_directory = "completed"

----------------------------------------------------------------------------
(* Properties of the configuration classes (ConfigSpec) *)

\* C16: when a configuration has been written and read back with from_file, the object
\* read is equal in every field to the object as it was written.
C16_WriteReadRoundTrip ==
    cfgPc = "restored" => NestedOf(dest_conf) = written

\* C17: when a configuration has been read from a dictionary or a file given from
\* outside, every field whose key the input has holds the input's value and every other
\* field holds its declared default.
C17_ReadSetsPresentFieldsOnly ==
    cfgPc = "read" =>
        \A f \in FieldNames :
            NestedOf(dest_conf)[f] = IF f \in input.has THEN InputValues[f] ELSE Declared[f]

\* C26: a Configuration that has just been constructed holds the declared default in
\* every field, whatever was done to the Configuration objects constructed before it.
C26_NewConfigurationHasDefaults ==
    [][(cls = "Configuration" /\ cfgPc = "idle" /\ cfgPc' = "constructed") =>
           NestedOf(source_conf)' = Declared]_vars

----------------------------------------------------------------------------
(* Properties of run_sweep and the SimulationPool (PoolSpec, FairPoolSpec) *)

AllTerminal == \A i \in 1..Len(jobs) : jobs[i] \in Terminal

Sum(snapshot) == snapshot.waiting + snapshot.running + snapshot.completed

C22_LogsReadAfterAllTerminal ==
    [][(\/ locals'.logs_read # locals.logs_read
        \/ poolPc' \in {"aggregate", "FileNotFoundError"}
        \/ (poolPc # "idle" /\ poolPc' = "idle")) =>
           (Len(jobs) = locals.job_count /\ AllTerminal)]_vars

\* without echo_status, the event logs of two jobs have been read
C22_Witness ==
    /\ poolPc = "aggregate"
    /\ ~locals.echo_status
    /\ locals.logs_read >= 2

\* C24: the polling loop is left only for pool.wait(), only when the snapshot counts
\* every job pushed as completed and no job is waiting or running; an iteration of the
\* loop changes no job; and when every job that is pushed eventually terminates, the loop
\* is eventually left and the call of run_sweep eventually ends, for zero jobs too.
C24_PollingLoopExits ==
    /\ [][(poolPc = "poll" /\ poolPc' # "poll") =>
              (/\ poolPc' = "wait"
               /\ locals'.status.completed = locals.job_count
               /\ Len(jobs) = locals.job_count
               /\ AllTerminal)]_vars
    /\ [][(poolPc = "poll" /\ locals' # locals) => jobs' = jobs]_vars
    /\ (poolPc = "poll") ~> (poolPc = "wait")
    /\ (poolPc = "poll") ~> (poolPc = "idle")

\* the loop has been left for pool.wait() after jobs were polled, one of which failed
C24_Witness ==
    /\ poolPc = "wait"
    /\ locals.echo_status
    /\ locals.job_count >= 2
    /\ locals.status.completed = locals.job_count
    /\ \E i \in 1..Len(jobs) : jobs[i] = "failed"

\* C27: whenever the call of run_sweep ends, by returning or by an exception, the working
\* directory is the one the call found when it started.
C27_CwdRestoredOnEveryExit ==
    [][(poolPc # "idle" /\ poolPc' = "idle") => cwd' = locals.cwd]_vars

====
